---- MODULE Spec2Model ----
(***************************************************************************)
(* schema-to-tool: JSON Schema -> OpenAI / Anthropic tool definitions.     *)
(*                                                                         *)
(* JSON values are tagged records:                                         *)
(*   [t |-> "null"], [t |-> "int", i |-> n], [t |-> "bool", b |-> ...],    *)
(*   [t |-> "str", s |-> <sequence of characters>],                        *)
(*   [t |-> "list", l |-> <sequence of values>],                           *)
(*   [t |-> "dict", d |-> <function from keys to values>].                 *)
(* A character is a one-letter string, or the code point of a non-ASCII    *)
(* character written "U+xxxx".                                             *)
(***************************************************************************)
EXTENDS Naturals, Sequences, FiniteSets

VARIABLES
    s, normalized, renormalized,        \* _normalize_name: input, result, result of a second pass
    tool, verdict,                      \* validate: candidate tool definition, (is_valid, errors)
    schema, schema0, call, result,      \* SchemaConverter.schema, its value at construction, last call and its outcome
    first, again                        \* the first convert call and its outcome; outcome of converting extract_schema(result)

vars == <<s, normalized, renormalized, tool, verdict, schema, schema0, call, result, first, again>>

\* ------------------------------------------------------------------ bounds
MaxLen == 3
MaxNameLen == 1

\* ------------------------------------------------------------ JSON values
None == [t |-> "null"]
Int(n) == [t |-> "int", i |-> n]
Bool(b) == [t |-> "bool", b |-> b]
Str(cs) == [t |-> "str", s |-> cs]
List(l) == [t |-> "list", l |-> l]
Dict(d) == [t |-> "dict", d |-> d]

EmptyMap == [k \in {} |-> None]

\* isinstance(v, dict) / isinstance(v, str)
IsDict(v) == v.t = "dict"
IsStr(v) == v.t = "str"

\* k in d, d.get(k, default), d[k] = v, d.pop(k, None), d.update(e) on the mapping of a dict
Has(d, k) == k \in DOMAIN d
Get(d, k, default) == IF k \in DOMAIN d THEN d[k] ELSE default
Put(d, k, v) == [x \in DOMAIN d \cup {k} |-> IF x = k THEN v ELSE d[x]]
Pop(d, k) == [x \in DOMAIN d \ {k} |-> d[x]]
Update(d, e) == [x \in DOMAIN d \cup DOMAIN e |-> IF x \in DOMAIN e THEN e[x] ELSE d[x]]

\* string literals of the program
EmptyStr == <<>>
UnnamedTool == <<"u","n","n","a","m","e","d","_","t","o","o","l">>
ObjectStr == <<"o","b","j","e","c","t">>
FunctionStr == <<"f","u","n","c","t","i","o","n">>

\* ------------------------------------------------------ character classes
AsciiLetters == {"a","b","c","d","e","f","g","h","i","j","k","l","m",
                 "n","o","p","q","r","s","t","u","v","w","x","y","z","A","Z"}
AsciiDigits == {"0","1","2","3","4","5","6","7","8","9"}
\* U+00E9 e-acute (a letter), U+0663 arabic-indic three (a decimal digit),
\* U+00BD vulgar fraction one half (numeric, not a digit)
NonAsciiLetters == {"U+00E9"}
NonAsciiDigits == {"U+0663"}
NonAsciiNumeric == {"U+00BD"}

\* str.isdigit(), str.isalnum() of one character
isdigit(c) == c \in AsciiDigits \cup NonAsciiDigits
isalnum(c) == c \in AsciiLetters \cup AsciiDigits \cup NonAsciiLetters \cup NonAsciiDigits \cup NonAsciiNumeric

\* ------------------------------------------------- SchemaConverter helpers
\* name.replace(" ", "_").replace("-", "_")
ReplaceSeparators(name) ==
    [i \in 1..Len(name) |-> IF name[i] \in {" ", "-"} THEN "_" ELSE name[i]]

KeepChar(c) == isalnum(c) \/ c = "_"

\* "".join(c for c in normalized if c.isalnum() or c == "_")
StripInvalid(name) == SelectSeq(name, KeepChar)

\* faulty variants of PrefixDigit: the digit test dropped; the prefix dropped
PrefixDigit_Always(name) ==
    IF name # <<>> THEN <<"_">> \o name ELSE name

PrefixDigit_Never(name) == name

\* if normalized and normalized[0].isdigit(): normalized = "_" + normalized
PrefixDigit(name) ==
    IF name # <<>> /\ isdigit(name[1]) THEN <<"_">> \o name ELSE name

_normalize_name(name) ==
    LET stripped == PrefixDigit(StripInvalid(ReplaceSeparators(name)))
    IN  IF stripped # <<>> THEN stripped ELSE UnnamedTool

\* ------------------------------------------------------------- formatters
\* a validator's return value: (is_valid, errors)
Verdict(errors) == [is_valid |-> Len(errors) = 0, errors |-> errors]

IfErr(cond, msg) == IF cond THEN <<msg>> ELSE <<>>

\* the name checks: an if / elif / elif chain, at most one error
NameErrors(d, missing, notStr, empty) ==
    IF ~Has(d, "name") THEN <<missing>>
    ELSE IF ~IsStr(d["name"]) THEN <<notStr>>
    ELSE IF d["name"].s = EmptyStr THEN <<empty>>
    ELSE <<>>

DescriptionErrors(d, notStr) ==
    IfErr(Has(d, "description") /\ ~IsStr(d["description"]), notStr)

\* faulty variant of OpenAIParamsErrors: the second check made an elif of the first
OpenAIParamsErrors_Elif(params) ==
    IF Get(params, "type", None) # Str(ObjectStr)
    THEN <<"Function parameters 'type' must be 'object'">>
    ELSE IfErr(~Has(params, "properties"), "Function parameters must have 'properties'")

\* the two independent checks on function.parameters
OpenAIParamsErrors(params) ==
    IfErr(Get(params, "type", None) # Str(ObjectStr), "Function parameters 'type' must be 'object'")
    \o IfErr(~Has(params, "properties"), "Function parameters must have 'properties'")

OpenAIFunctionErrors(func) ==
    NameErrors(func, "Function must have a 'name' field",
                     "Function 'name' must be a string",
                     "Function 'name' cannot be empty")
    \o DescriptionErrors(func, "Function 'description' must be a string")
    \o (IF ~Has(func, "parameters") THEN <<"Function must have a 'parameters' field">>
        ELSE IF ~IsDict(func["parameters"]) THEN <<"Function 'parameters' must be a dictionary">>
        ELSE OpenAIParamsErrors(func["parameters"].d))

\* OpenAIFormatter.validate
OpenAIValidate(tl) ==
    IF ~IsDict(tl) THEN [is_valid |-> FALSE, errors |-> <<"Tool must be a dictionary">>]
    ELSE LET typeErr == IfErr(Get(tl.d, "type", None) # Str(FunctionStr),
                              "Tool 'type' must be 'function'")
         IN  IF ~Has(tl.d, "function")
             THEN Verdict(typeErr \o <<"Tool must have a 'function' field">>)
             ELSE IF ~IsDict(tl.d["function"])
             THEN Verdict(typeErr \o <<"'function' must be a dictionary">>)
             ELSE Verdict(typeErr \o OpenAIFunctionErrors(tl.d["function"].d))

\* the two independent checks on input_schema
AnthropicSchemaErrors(sch) ==
    IfErr(Get(sch, "type", None) # Str(ObjectStr), "Tool input_schema 'type' must be 'object'")
    \o IfErr(~Has(sch, "properties"), "Tool input_schema must have 'properties'")

\* AnthropicFormatter.validate
AnthropicValidate(tl) ==
    IF ~IsDict(tl) THEN [is_valid |-> FALSE, errors |-> <<"Tool must be a dictionary">>]
    ELSE Verdict(
        NameErrors(tl.d, "Tool must have a 'name' field",
                         "Tool 'name' must be a string",
                         "Tool 'name' cannot be empty")
        \o DescriptionErrors(tl.d, "Tool 'description' must be a string")
        \o (IF ~Has(tl.d, "input_schema") THEN <<"Tool must have an 'input_schema' field">>
            ELSE IF ~IsDict(tl.d["input_schema"]) THEN <<"Tool 'input_schema' must be a dictionary">>
            ELSE AnthropicSchemaErrors(tl.d["input_schema"].d)))

\* OpenAIFormatter.format, AnthropicFormatter.format
OpenAIFormat(metadata) ==
    Dict([type |-> Str(FunctionStr),
          function |-> Dict([name |-> metadata.name,
                             description |-> metadata.description,
                             parameters |-> metadata.parameters])])

AnthropicFormat(metadata) ==
    Dict([name |-> metadata.name,
          description |-> metadata.description,
          input_schema |-> metadata.parameters])

\* outcomes of a call: a returned value or a raised exception
Ok(v) == [kind |-> "ok", value |-> v]
Raise(exc, msg) == [kind |-> "raise", exc |-> exc, msg |-> msg]

\* schema.update(params): fails on a value that is no mapping
MergeInto(base, params) ==
    IF IsDict(params) THEN Ok(Dict(Update(base, params.d)))
    ELSE Raise("TypeError", "object is not iterable")

\* faulty variant of OpenAIExtractSchema: the name is left out of the rebuilt schema
OpenAIExtractSchema_NoName(tl) ==
    LET func == Get(tl.d, "function", Dict(EmptyMap)).d
        base == [description |-> Get(func, "description", Str(EmptyStr))]
    IN  MergeInto(base, Get(func, "parameters", Dict(EmptyMap)))

\* OpenAIFormatter.extract_schema, AnthropicFormatter.extract_schema
OpenAIExtractSchema(tl) ==
    LET func == Get(tl.d, "function", Dict(EmptyMap)).d
        base == [name |-> Get(func, "name", Str(EmptyStr)),
                 description |-> Get(func, "description", Str(EmptyStr))]
    IN  MergeInto(base, Get(func, "parameters", Dict(EmptyMap)))

AnthropicExtractSchema(tl) ==
    LET base == [name |-> Get(tl.d, "name", Str(EmptyStr)),
                 description |-> Get(tl.d, "description", Str(EmptyStr))]
    IN  MergeInto(base, Get(tl.d, "input_schema", Dict(EmptyMap)))

\* -------------------------------------------------------- SchemaConverter
SUPPORTED_FORMATS == {"openai", "anthropic"}

\* faulty variant of Path1Parameters: additionalProperties copied whenever the key is present
Path1Parameters_CopyNull(d) ==
    LET base == [type |-> Str(ObjectStr), properties |-> Get(d, "properties", Dict(EmptyMap))]
        withRequired == IF Has(d, "required") THEN Put(base, "required", d["required"]) ELSE base
    IN  Dict(IF Has(d, "additionalProperties")
             THEN Put(withRequired, "additionalProperties", d["additionalProperties"])
             ELSE withRequired)

\* the schema is directly a parameters object
Path1Parameters(d) ==
    LET base == [type |-> Str(ObjectStr), properties |-> Get(d, "properties", Dict(EmptyMap))]
        withRequired == IF Has(d, "required") THEN Put(base, "required", d["required"]) ELSE base
    IN  Dict(IF Get(d, "additionalProperties", None) # None
             THEN Put(withRequired, "additionalProperties", d["additionalProperties"])
             ELSE withRequired)

\* faulty variant of Path3Parameters: parameters is self.schema itself, not a copy of it
Path3Parameters_NoCopy(d) ==
    LET popped == Pop(Pop(Pop(d, "name"), "title"), "description")
        parameters == Dict(IF ~Has(popped, "type") THEN Put(popped, "type", Str(ObjectStr)) ELSE popped)
    IN  [parameters |-> parameters, self_schema |-> parameters]

\* the entire schema treated as parameters: a copy of self.schema, edited.
\* Yields the parameters and self.schema as the edits leave it.
Path3Parameters(d) ==
    LET popped == Pop(Pop(Pop(d, "name"), "title"), "description")
        parameters == Dict(IF ~Has(popped, "type") THEN Put(popped, "type", Str(ObjectStr)) ELSE popped)
    IN  [parameters |-> parameters, self_schema |-> Dict(d)]

BuildParameters(d) ==
    IF Has(d, "properties") THEN [parameters |-> Path1Parameters(d), self_schema |-> Dict(d)]
    ELSE IF Has(d, "parameters") THEN [parameters |-> d["parameters"], self_schema |-> Dict(d)]
    ELSE Path3Parameters(d)

\* SchemaConverter._extract_tool_metadata: the outcome and self.schema after it;
\* a name that is no string has no replace()
_extract_tool_metadata(doc) ==
    LET name == Get(doc.d, "name", Get(doc.d, "title", Str(UnnamedTool)))
        description == Get(doc.d, "description", Str(EmptyStr))
        built == BuildParameters(doc.d)
    IN  [outcome |-> IF ~IsStr(name) THEN Raise("AttributeError", "object has no attribute 'replace'")
                     ELSE Ok([name |-> Str(_normalize_name(name.s)),
                              description |-> description,
                              parameters |-> built.parameters]),
         self_schema |-> built.self_schema]

\* the part of convert after the format check
Dispatch(doc, format) ==
    LET extracted == _extract_tool_metadata(doc)
        metadata == extracted.outcome
    IN  [outcome |-> IF metadata.kind = "raise" THEN metadata
                     ELSE IF format = "openai" THEN Ok(OpenAIFormat(metadata.value))
                     ELSE IF format = "anthropic" THEN Ok(AnthropicFormat(metadata.value))
                     ELSE Raise("ValueError", "Unknown format"),
         self_schema |-> extracted.self_schema]

\* faulty variant of convert: metadata extracted before the format is checked
convert_ExtractFirst(doc, format) ==
    LET extracted == _extract_tool_metadata(doc)
    IN  IF extracted.outcome.kind = "raise" THEN extracted
        ELSE IF format \notin SUPPORTED_FORMATS
        THEN [outcome |-> Raise("ValueError", "Unsupported format"),
              self_schema |-> extracted.self_schema]
        ELSE Dispatch(doc, format)

\* SchemaConverter.convert: the outcome and self.schema after it
convert(doc, format) ==
    IF format \notin SUPPORTED_FORMATS
    THEN [outcome |-> Raise("ValueError", "Unsupported format"), self_schema |-> doc]
    ELSE Dispatch(doc, format)

\* SchemaConverter.to_json: the JSON text of the tool definition at an indent
to_json(doc, format, indent) ==
    LET converted == convert(doc, format)
        tool_def == converted.outcome
    IN  [outcome |-> IF tool_def.kind = "raise" THEN tool_def
                     ELSE Ok([t |-> "json_text", of |-> tool_def.value, indent |-> indent]),
         self_schema |-> converted.self_schema]

\* SchemaConverter.__init__ / _validate_schema
Construct(doc) ==
    IF ~IsDict(doc) THEN Raise("ValueError", "Schema must be a dictionary") ELSE Ok(doc)

\* --------------------------------------------------------- input universes
RECURSIVE StringsOver(_, _)
StringsOver(alphabet, n) ==
    IF n = 0 THEN {<<>>}
    ELSE LET shorter == StringsOver(alphabet, n - 1)
         IN  shorter \cup {Append(w, c) : w \in shorter, c \in alphabet}

Alphabet == {"a", "7", "_", " ", "-", "!", "U+00E9", "U+0663", "U+00BD"}
Strings == StringsOver(Alphabet, MaxLen)

Unset == [t |-> "unset"]
Absent == [t |-> "absent"]

\* the mapping with the keys of f whose value is not Absent
Mapping(f) == Dict([k \in {x \in DOMAIN f : f[x] # Absent} |-> f[k]])

CityProperties == Dict([city |-> Dict([type |-> Str(<<"s","t","r","i","n","g">>)])])

\* candidate tool definitions for the validators
ParamValues ==
    {Absent, Int(5)} \cup
    {Mapping([type |-> ty, properties |-> pr]) :
        ty \in {Absent, Str(ObjectStr), Str(<<"a","r","r","a","y">>)},
        pr \in {Absent, Dict(EmptyMap)}}
ToolNameValues == {Absent, Int(1), Str(EmptyStr), Str(<<"t">>)}
DescriptionValues == {Absent, Str(<<"d">>), Int(0)}
FunctionValues ==
    {Absent, List(<<>>)} \cup
    {Mapping([name |-> n, description |-> de, parameters |-> pa]) :
        n \in ToolNameValues, de \in DescriptionValues, pa \in ParamValues}
OpenAITools ==
    {Mapping([type |-> ty, function |-> fn]) :
        ty \in {Absent, Str(FunctionStr), Str(<<"t","o","o","l">>)}, fn \in FunctionValues}
AnthropicTools ==
    {Mapping([name |-> n, description |-> de, input_schema |-> pa]) :
        n \in ToolNameValues, de \in DescriptionValues, pa \in ParamValues}
NonMappings == {None, Int(5), Str(<<"t">>), List(<<>>)}
Tools == OpenAITools \cup AnthropicTools \cup NonMappings

\* schema documents a SchemaConverter is built from
NameAlphabet == {"a", "7", "-"}
NameValues == {Absent, Int(5)} \cup {Str(w) : w \in StringsOver(NameAlphabet, MaxNameLen)}
SchemaDocs ==
    {Mapping([name |-> n, title |-> ti, description |-> de, properties |-> pr,
              required |-> rq, additionalProperties |-> ap, parameters |-> pa, type |-> ty]) :
        n \in NameValues,
        ti \in {Absent, Str(<<"A", " ", "7">>)},
        de \in DescriptionValues,
        pr \in {Absent, None, CityProperties},
        rq \in {Absent, List(<<Str(<<"c","i","t","y">>)>>)},
        ap \in {Absent, None, Bool(FALSE)},
        pa \in {Absent, Int(5), Dict([type |-> Str(ObjectStr), properties |-> CityProperties])},
        ty \in {Absent, Str(ObjectStr), Str(<<"s","t","r","i","n","g">>)}}
Formats == SUPPORTED_FORMATS \cup {"bogus"}
Indents == {2}

\* ------------------------------------------------ _normalize_name, applied
InitNormalize ==
    /\ s \in Strings
    /\ normalized = Unset
    /\ renormalized = Unset
    /\ tool = Unset /\ verdict = Unset
    /\ schema = Unset /\ schema0 = Unset /\ call = Unset /\ result = Unset
    /\ first = Unset /\ again = Unset

Normalize ==
    /\ normalized = Unset
    /\ normalized' = Str(_normalize_name(s))
    /\ UNCHANGED <<s, renormalized, tool, verdict, schema, schema0, call, result, first, again>>

Renormalize ==
    /\ normalized # Unset
    /\ renormalized = Unset
    /\ renormalized' = Str(_normalize_name(normalized.s))
    /\ UNCHANGED <<s, normalized, tool, verdict, schema, schema0, call, result, first, again>>

NextNormalize == Normalize \/ Renormalize

SpecNormalize == InitNormalize /\ [][NextNormalize]_vars

\* no character of the input survives the replace and strip steps
NothingSurvives(str) ==
    \A i \in 1..Len(str) : ~(isalnum(str[i]) \/ str[i] \in {"_", " ", "-"})

\* C4: the normalized name is never empty and never starts with a digit, and
\* it is "unnamed_tool" when no character of the input survives.
C4_NonEmptyNoLeadingDigit ==
    normalized # Unset =>
        /\ normalized.s # <<>>
        /\ ~isdigit(normalized.s[1])
        /\ (NothingSurvives(s) => normalized.s = UnnamedTool)

C4_Witness ==
    /\ normalized # Unset
    /\ Len(s) = MaxLen
    /\ isdigit(s[1])
    /\ normalized.s = <<"_">> \o s

C4_WitnessFallback ==
    /\ normalized # Unset
    /\ s # <<>>
    /\ NothingSurvives(s)
    /\ normalized.s = UnnamedTool

\* C5: the normalized name holds only A-Z, a-z, 0-9 and underscore.
C5_AsciiIdentifier ==
    normalized # Unset =>
        \A i \in 1..Len(normalized.s) :
            normalized.s[i] \in AsciiLetters \cup AsciiDigits \cup {"_"}

\* C6: normalizing a normalized name changes nothing.
C6_Idempotent ==
    renormalized # Unset => renormalized = normalized

C6_Witness ==
    /\ renormalized # Unset
    /\ s # <<>>
    /\ isdigit(s[1])
    /\ normalized.s # s
    /\ renormalized = normalized

\* ---------------------------------------------------- validate, applied
InitValidate ==
    /\ tool \in Tools
    /\ verdict = Unset
    /\ s = Unset /\ normalized = Unset /\ renormalized = Unset
    /\ schema = Unset /\ schema0 = Unset /\ call = Unset /\ result = Unset
    /\ first = Unset /\ again = Unset

ValidateOpenAI ==
    /\ verdict = Unset
    /\ verdict' = [by |-> "openai", out |-> OpenAIValidate(tool)]
    /\ UNCHANGED <<s, normalized, renormalized, tool, schema, schema0, call, result, first, again>>

ValidateAnthropic ==
    /\ verdict = Unset
    /\ verdict' = [by |-> "anthropic", out |-> AnthropicValidate(tool)]
    /\ UNCHANGED <<s, normalized, renormalized, tool, schema, schema0, call, result, first, again>>

NextValidate == ValidateOpenAI \/ ValidateAnthropic

SpecValidate == InitValidate /\ [][NextValidate]_vars

\* --------------------------------------------------- the converter, in use
InitConverter ==
    /\ schema \in SchemaDocs
    /\ Construct(schema).kind = "ok"
    /\ schema0 = schema
    /\ call = Unset /\ result = Unset
    /\ first = Unset
    /\ again = Unset /\ verdict = Unset
    /\ tool = Unset
    /\ s = Unset /\ normalized = Unset /\ renormalized = Unset

Convert(f) ==
    /\ call' = [op |-> "convert", format |-> f]
    /\ result' = convert(schema, f).outcome
    /\ schema' = convert(schema, f).self_schema
    /\ first' = IF first = Unset THEN [format |-> f, result |-> result'] ELSE first
    /\ again' = Unset /\ verdict' = Unset
    /\ UNCHANGED <<s, normalized, renormalized, tool, schema0>>

ToJson(f, indent) ==
    /\ call' = [op |-> "to_json", format |-> f]
    /\ result' = to_json(schema, f, indent).outcome
    /\ schema' = to_json(schema, f, indent).self_schema
    /\ again' = Unset /\ verdict' = Unset
    /\ UNCHANGED <<s, normalized, renormalized, tool, schema0, first>>

\* the matching validator on the tool definition convert returned
ValidateResult ==
    /\ call # Unset /\ call.op = "convert" /\ result.kind = "ok"
    /\ verdict = Unset
    /\ verdict' = [by |-> call.format,
                   out |-> IF call.format = "openai" THEN OpenAIValidate(result.value)
                           ELSE AnthropicValidate(result.value)]
    /\ UNCHANGED <<s, normalized, renormalized, tool, schema, schema0, call, result, first, again>>

\* a second converter, built from extract_schema of the tool definition, converts to the same format
Reconvert ==
    /\ call # Unset /\ call.op = "convert" /\ result.kind = "ok"
    /\ again = Unset
    /\ LET extracted == IF call.format = "openai" THEN OpenAIExtractSchema(result.value)
                        ELSE AnthropicExtractSchema(result.value)
       IN  again' = IF extracted.kind = "raise" THEN extracted
                    ELSE IF Construct(extracted.value).kind = "raise" THEN Construct(extracted.value)
                    ELSE convert(extracted.value, call.format).outcome
    /\ UNCHANGED <<s, normalized, renormalized, tool, verdict, schema, schema0, call, result, first>>

NextConverter ==
    \/ \E f \in Formats : Convert(f)
    \/ \E f \in Formats, indent \in Indents : ToJson(f, indent)
    \/ ValidateResult
    \/ Reconvert

SpecConverter == InitConverter /\ [][NextConverter]_vars

\* ------------------------------------------------------------ validators
\* the checks of each provider that a mapping violates, stated on the tool definition
BadName(d) == ~(Has(d, "name") /\ IsStr(d["name"]) /\ d["name"].s # <<>>)
BadDescription(d) == Has(d, "description") /\ ~IsStr(d["description"])
BadSchemaChecks(d, key) ==
    IF ~(Has(d, key) /\ IsDict(d[key])) THEN {key}
    ELSE {"schema.type" : x \in {1} \cap (IF Get(d[key].d, "type", None) = Str(ObjectStr) THEN {} ELSE {1})}
         \cup {"schema.properties" : x \in {1} \cap (IF Has(d[key].d, "properties") THEN {} ELSE {1})}
BadFieldChecks(d, key) ==
    (IF BadName(d) THEN {"name"} ELSE {})
    \cup (IF BadDescription(d) THEN {"description"} ELSE {})
    \cup BadSchemaChecks(d, key)
FunctionUsable(d) == Has(d, "function") /\ IsDict(d["function"])
BadTypeField(d) == ~(Has(d, "type") /\ d["type"] = Str(FunctionStr))
ViolatedChecks(by, d) ==
    IF by = "anthropic" THEN BadFieldChecks(d, "input_schema")
    ELSE (IF BadTypeField(d) THEN {"type"} ELSE {})
         \cup (IF FunctionUsable(d) THEN BadFieldChecks(d["function"].d, "parameters")
               ELSE {"function"})

Range(seq) == {seq[i] : i \in 1..Len(seq)}

\* C8: a validator returns is_valid exactly when it lists no defect; a value
\* that is no mapping gets exactly one defect; a mapping gets one defect for
\* each check it violates, and an OpenAI tool whose function is absent or no
\* mapping still gets the defect of a wrong type before the function defect.
C8_AllDefectsReported ==
    (verdict # Unset /\ tool # Unset) =>
        LET out == verdict.out
        IN  /\ out.is_valid <=> (out.errors = <<>>)
            /\ ~IsDict(tool) => (Len(out.errors) = 1 /\ ~out.is_valid)
            /\ IsDict(tool) =>
                /\ Len(out.errors) = Cardinality(ViolatedChecks(verdict.by, tool.d))
                /\ Cardinality(Range(out.errors)) = Len(out.errors)
                /\ (verdict.by = "openai" /\ BadTypeField(tool.d)) =>
                        out.errors[1] = "Tool 'type' must be 'function'"
                /\ (verdict.by = "openai" /\ ~FunctionUsable(tool.d)) =>
                        Len(out.errors) = (IF BadTypeField(tool.d) THEN 2 ELSE 1)

C8_Witness ==
    /\ verdict # Unset /\ tool # Unset
    /\ IsDict(tool)
    /\ verdict.by = "openai"
    /\ FunctionUsable(tool.d)
    /\ Len(verdict.out.errors) = 5

C8_WitnessEarlyStop ==
    /\ verdict # Unset /\ tool # Unset
    /\ IsDict(tool)
    /\ verdict.by = "openai"
    /\ ~FunctionUsable(tool.d)
    /\ Len(verdict.out.errors) = 2

\* -------------------------------------------------------------- converter
Converted == call # Unset /\ call.op = "convert" /\ result.kind = "ok"

\* the parameters object inside the tool definition convert returned
ResultParameters ==
    IF call.format = "openai" THEN result.value.d["function"].d["parameters"]
    ELSE result.value.d["input_schema"]

ResultName ==
    IF call.format = "openai" THEN result.value.d["function"].d["name"]
    ELSE result.value.d["name"]

\* C1: the matching validator accepts every tool definition convert returns.
C1_ConvertedToolsValidate ==
    (Converted /\ verdict # Unset) => verdict.out.is_valid

\* C2: a schema with neither properties nor parameters yields a parameters
\* object whose type is "object".
C2_ThirdPathTypeObject ==
    (Converted /\ ~Has(schema0.d, "properties") /\ ~Has(schema0.d, "parameters")) =>
        /\ IsDict(ResultParameters)
        /\ Has(ResultParameters.d, "type")
        /\ ResultParameters.d["type"] = Str(ObjectStr)

\* C3: a schema with a properties key yields a parameters object with type
\* "object", the schema's properties, required exactly when the schema has
\* it, additionalProperties exactly when the schema has it and it is not
\* null, and no other key.
C3_FirstPathKeys ==
    (Converted /\ Has(schema0.d, "properties")) =>
        LET p == ResultParameters
            doc == schema0.d
            hasAP == Has(doc, "additionalProperties") /\ doc["additionalProperties"] # None
        IN  /\ IsDict(p)
            /\ DOMAIN p.d = {"type", "properties"}
                    \cup (IF Has(doc, "required") THEN {"required"} ELSE {})
                    \cup (IF hasAP THEN {"additionalProperties"} ELSE {})
            /\ p.d["type"] = Str(ObjectStr)
            /\ p.d["properties"] = doc["properties"]
            /\ Has(doc, "required") => p.d["required"] = doc["required"]
            /\ hasAP => p.d["additionalProperties"] = doc["additionalProperties"]

C3_Witness ==
    /\ Converted
    /\ Has(schema0.d, "properties") /\ Has(schema0.d, "parameters")
    /\ Has(schema0.d, "title") /\ Has(schema0.d, "type") /\ Has(schema0.d, "required")
    /\ Has(schema0.d, "additionalProperties") /\ schema0.d["additionalProperties"] = None
    /\ DOMAIN ResultParameters.d = {"type", "properties", "required"}

\* C7: convert with a format that is not supported raises the unsupported
\* format error, whatever the schema holds.
C7_UnsupportedFormat ==
    (call # Unset /\ call.op = "convert" /\ call.format \notin SUPPORTED_FORMATS) =>
        result = Raise("ValueError", "Unsupported format")

C7_Witness ==
    /\ call # Unset /\ call.op = "convert" /\ call.format = "bogus"
    /\ Has(schema0.d, "name") /\ ~IsStr(schema0.d["name"])
    /\ result = Raise("ValueError", "Unsupported format")

\* C9: no call changes the stored schema, and convert returns for a format
\* what the first convert with that format returned.
C9_Stateless ==
    /\ schema = schema0
    /\ (call # Unset /\ call.op = "convert" /\ first.format = call.format) =>
            result = first.result

C9_Witness ==
    /\ call # Unset /\ call.op = "convert" /\ call.format = "anthropic"
    /\ first.format = "openai" /\ first.result.kind = "ok"
    /\ ~Has(schema0.d, "properties") /\ ~Has(schema0.d, "parameters")
    /\ Has(schema0.d, "name") /\ ~Has(schema0.d, "type")
    /\ result.kind = "ok"
    /\ schema = schema0

\* C10: for a schema with a properties key, converting extract_schema of the
\* converted tool definition to the same format gives that tool definition.
C10_ExtractSchemaInverse ==
    (Converted /\ again # Unset /\ Has(schema0.d, "properties")) => again = result

C10_Witness ==
    /\ Converted /\ again # Unset
    /\ call.format = "openai"
    /\ Has(schema0.d, "properties") /\ Has(schema0.d, "name")
    /\ IsStr(schema0.d["name"]) /\ ResultName # schema0.d["name"]
    /\ again = result

====
